---- MODULE Spec2Model ----
(***************************************************************************)
(* WinFuse transaction bridge: FuseDeviceTransact (src/src/winfuse/fuse.c) *)
(* run by concurrent worker threads against one mounted volume, with the   *)
(* context lifecycle (FuseContextCreate / FuseContextDelete), the dispatch *)
(* table set up by DriverEntry (src/src/winfuse/driver.c), the negotiation *)
(* gate (VersionMajor / InitEvent) and the correlation queue.              *)
(***************************************************************************)
EXTENDS Integers, Sequences, FiniteSets

(* ------------------------------ bounds -------------------------------- *)
\* worker threads issuing exchange calls concurrently
NumWorkers == 2
\* FUSE_CONTEXT objects the allocator can ever hand out
MaxContexts == 2
\* internal requests the host framework ever has to offer
MaxRequests == 1
\* exchange calls the workers issue in all
MaxCalls == 3

(* ------------------------- program constants -------------------------- *)
\* NTSTATUS is a signed 32-bit LONG: the values are the two's-complement
\* readings of the 0xC... codes, so that NT_SUCCESS is "not negative".
STATUS_SUCCESS == 0
STATUS_TIMEOUT == 258
STATUS_INVALID_PARAMETER == -1073741811
STATUS_INVALID_DEVICE_REQUEST == -1073741808
STATUS_ACCESS_DENIED == -1073741790
STATUS_BUFFER_TOO_SMALL == -1073741789
STATUS_THREAD_IS_TERMINATING == -1073741749
STATUS_INSUFFICIENT_RESOURCES == -1073741670
STATUS_CANCELLED == -1073741536
\* (UINT32)-1, kept as its 32-bit pattern read as a signed number
VersionFailed == -1
\* sizeof(struct fuse_out_header), sizeof(struct fuse_in_header), minimum
\* size of the output region
FUSE_PROTO_RSP_HEADER_SIZE == 16
FUSE_PROTO_REQ_HEADER_SIZE == 40
FUSE_PROTO_REQ_SIZEMIN == 8192
\* operation kinds: the reserved kind, a kind DriverEntry binds a handler
\* to, and one whose slot it leaves unset
FspFsctlTransactReservedKind == 0
FspFsctlTransactCreateKind == 1
FspFsctlTransactOverwriteKind == 2

NT_SUCCESS(Status) == Status >= 0

Workers == 1..NumWorkers
ContextIds == 1..MaxContexts
RequestIds == 1..MaxRequests
Kinds == {FspFsctlTransactReservedKind, FspFsctlTransactCreateKind,
          FspFsctlTransactOverwriteKind}

\* FuseProcessFunction[Kind] # 0 after DriverEntry
FuseProcessFunction(Kind) ==
    Kind \in {FspFsctlTransactReservedKind, FspFsctlTransactCreateKind}

(* ----------------------- inputs of an exchange call ------------------- *)
InputLengths == {0, FUSE_PROTO_RSP_HEADER_SIZE - 1, FUSE_PROTO_RSP_HEADER_SIZE}
ResponseLens == {FUSE_PROTO_RSP_HEADER_SIZE - 1, FUSE_PROTO_RSP_HEADER_SIZE,
                 FUSE_PROTO_RSP_HEADER_SIZE + 1}
OutputLengths == {0, FUSE_PROTO_REQ_SIZEMIN - 1, FUSE_PROTO_REQ_SIZEMIN}
\* unique ids a response may carry: 0 is never assigned to a context
Uniques == 0..MaxContexts

\* the exchange buffers a call may pass.  A field the bridge does not read
\* is 0: len when the input region is absent or shorter than the response
\* header, unique when the response is absent or malformed.
ExchangeBuffers ==
    {b \in [il : InputLengths, rl : ResponseLens \cup {0},
            u : Uniques, ol : OutputLengths] :
        /\ (b.rl = 0) <=> (FUSE_PROTO_RSP_HEADER_SIZE > b.il)
        /\ (FUSE_PROTO_RSP_HEADER_SIZE > b.rl \/ b.rl > b.il) => b.u = 0}


\* the negotiated protocol version the external negotiation path stores
VersionNegotiated == 7

(* ------------------------------ state --------------------------------- *)
VARIABLES
    Ioq,            \* DeviceExtension->Ioq: "null", "live" or "deleted"
    Cache,          \* DeviceExtension->Cache: "null", "live" or "deleted"
    VersionMajor,   \* DeviceExtension->VersionMajor
    InitEvent,      \* DeviceExtension->InitEvent is signalled
    pending,        \* Ioq: the pending set, oldest first
    processing,     \* Ioq: the processing set, keyed by unique id
    ctx,            \* the FUSE_CONTEXT objects of the heap
    req,            \* the internal request buffers of the host framework
    bugcheck,       \* the kernel has stopped on an invalid memory access
    setter,         \* how far the negotiation path has got
    calls,          \* exchange calls issued so far
    thr             \* per worker: the exchange call it is running

vars == <<Ioq, Cache, VersionMajor, InitEvent, pending, processing, ctx, req, bugcheck, setter, calls, thr>>

\* FUSE_CONTEXT * values: null, a pointer to a real context, or a status
\* encoded by FuseContextStatus
NullContext == [tag |-> "null", val |-> 0]
RealContext(c) == [tag |-> "real", val |-> c]
FuseContextStatus(Status) == [tag |-> "status", val |-> Status]
FuseContextIsStatus(Context) == Context.tag = "status"
FuseContextToStatus(Context) == Context.val

\* the Hint the host framework puts in internal request r
HintOf(r) == 100 + r

\* a worker between two exchange calls.  Posted is history: the context
\* the completion phase of the call re-posted to the pending set, kept
\* while the call has not taken another context or none from that set.
IdleThread ==
    [pc |-> "idle", InputBufferLength |-> 0, OutputBufferLength |-> 0,
     rspLen |-> 0, rspUnique |-> 0, Context |-> NullContext,
     InternalRequest |-> 0, Continue |-> FALSE, Result |-> STATUS_SUCCESS,
     Information |-> 0, reqLen |-> 0, VersionMajor |-> 0, Posted |-> 0]

FreshContext ==
    [state |-> "unalloc", InternalRequest |-> 0, Kind |-> 0, Hint |-> 0,
     Status |-> 0, deletes |-> 0]

FreshRequest ==
    [state |-> "host", Kind |-> 0, Hint |-> 0, frees |-> 0, responses |-> <<>>]

\* FuseDeviceInit: FuseIoqCreate then FuseCacheCreate; either may fail, and
\* the function returns at the first failure leaving the rest unset.  On
\* success the queue is empty and the gate is armed, not signalled.
FuseDeviceInitOutcomes ==
    {[Ioq |-> "null", Cache |-> "null"],
     [Ioq |-> "live", Cache |-> "null"],
     [Ioq |-> "live", Cache |-> "live"]}

Init ==
    /\ \E o \in FuseDeviceInitOutcomes : Ioq = o.Ioq /\ Cache = o.Cache
    /\ VersionMajor = 0
    /\ InitEvent = FALSE
    /\ pending = <<>>
    /\ processing = {}
    /\ ctx = [c \in ContextIds |-> FreshContext]
    /\ req = [r \in RequestIds |-> FreshRequest]
    /\ bugcheck = FALSE
    /\ setter = "start"
    /\ calls = 0
    /\ thr = [t \in Workers |-> IdleThread]

(* --------------------------- heap operations -------------------------- *)
\* FuseFree of an internal request buffer
FuseFree(rq, r) == [rq EXCEPT ![r].frees = @ + 1]

\* results FuseSendTransactInternalIrp can return
SendResults == {STATUS_SUCCESS, STATUS_INSUFFICIENT_RESOURCES}

\* FuseSendTransactInternalIrp(.., InternalResponse, 0): the host framework
\* is handed a response for internal request r
SendResponse(rq, r, Rsp) ==
    [rq EXCEPT ![r].responses =
        Append(@, [Kind |-> Rsp.Kind, Hint |-> Rsp.Hint, Status |-> Rsp.Status])]

\* FuseContextDelete: the heap after the context is deleted
FuseContextDeleteCtx(cx, c) ==
    [cx EXCEPT ![c].state = "freed", ![c].deletes = @ + 1]

\* (mutant) deleting a context does not free its internal request
FuseContextDeleteReq_NoFree(rq, cx, c) == rq

\* FuseContextDelete: the request buffers after the context is deleted
FuseContextDeleteReq(rq, cx, c) ==
    IF 0 # cx[c].InternalRequest THEN FuseFree(rq, cx[c].InternalRequest) ELSE rq

\* (mutant) the response of a real context does not echo the Hint
InternalResponseOf_NoHint(cx, c) ==
    [Kind |-> cx[c].Kind, Hint |-> 0, Status |-> cx[c].Status]

\* Context->InternalResponse of a real context
InternalResponseOf(cx, c) ==
    [Kind |-> cx[c].Kind, Hint |-> cx[c].Hint, Status |-> cx[c].Status]

\* exit: the call returns Result (its InternalRequest is freed by ExitReq)
ExitThread(th, Result) == [th EXCEPT !.pc = "ret", !.Result = Result]

\* (mutant) the call's InternalRequest is not freed at exit
ExitReq_NoFree(rq, th) == rq

\* exit: if (0 != InternalRequest) FuseFree(InternalRequest)
ExitReq(rq, th) ==
    IF 0 # th.InternalRequest THEN FuseFree(rq, th.InternalRequest) ELSE rq

\* request: the request phase starts (zeroing the request header) or, with
\* no output region, the call succeeds with nothing written.  The response,
\* Context and Continue are dead in the request phase (it reads no response
\* and assigns the other two before it reads them) and are cleared.
GotoRequest(th) ==
    IF 0 # th.OutputBufferLength
    THEN [th EXCEPT !.pc = "NextPending", !.reqLen = 0,
                    !.InputBufferLength = 0, !.rspLen = 0, !.rspUnique = 0,
                    !.Context = NullContext, !.Continue = FALSE]
    ELSE [ExitThread(th, STATUS_SUCCESS) EXCEPT !.Information = 0]


\* the volume exists: FuseDeviceInit succeeded and FuseDeviceFini has not run
Mounted == Ioq = "live" /\ Cache = "live"

\* The system runs until a bugcheck, on a mounted volume.  Completing an Irp
\* touches nothing but the worker's own call, so it is taken as soon as a
\* call has returned.
Running == ~bugcheck /\ Mounted /\ \A t \in Workers : thr[t].pc # "ret"

(* --------------------- correlation queue (FuseIoq) -------------------- *)
\* FuseIoqEndProcessing: the context removed from the processing set, 0 if
\* no context there has that unique id
FuseIoqEndProcessing(proc, unique) == IF unique \in proc THEN unique ELSE 0
FuseIoqEndProcessingSet(proc, unique) == proc \ {unique}
\* FuseIoqStartProcessing: the context's unique id is its own identity
FuseIoqStartProcessing(proc, c) == proc \cup {c}
FuseIoqPostPending(pend, c) == Append(pend, c)
FuseIoqNextPending(pend) == IF pend = <<>> THEN 0 ELSE Head(pend)
FuseIoqNextPendingSeq(pend) == IF pend = <<>> THEN pend ELSE Tail(pend)

(* ------------------------- FuseDeviceTransact ------------------------- *)
\* (mutant) the response's len is not compared with the input length
CheckParameters_NoLenBound(InputBufferLength, rspLen, OutputBufferLength) ==
    IF /\ 0 # InputBufferLength
       /\ \/ FUSE_PROTO_RSP_HEADER_SIZE > InputBufferLength
          \/ FUSE_PROTO_RSP_HEADER_SIZE > rspLen
    THEN STATUS_INVALID_PARAMETER
    ELSE IF 0 # OutputBufferLength /\ FUSE_PROTO_REQ_SIZEMIN > OutputBufferLength
    THEN STATUS_BUFFER_TOO_SMALL
    ELSE STATUS_SUCCESS

\* (mutant) the output region's size is not checked
CheckParameters_NoOutputCheck(InputBufferLength, rspLen, OutputBufferLength) ==
    IF /\ 0 # InputBufferLength
       /\ \/ FUSE_PROTO_RSP_HEADER_SIZE > InputBufferLength
          \/ FUSE_PROTO_RSP_HEADER_SIZE > rspLen
          \/ rspLen > InputBufferLength
    THEN STATUS_INVALID_PARAMETER
    ELSE STATUS_SUCCESS

\* check parameters: the result of the checks, STATUS_SUCCESS if they pass
CheckParameters(InputBufferLength, rspLen, OutputBufferLength) ==
    IF /\ 0 # InputBufferLength
       /\ \/ FUSE_PROTO_RSP_HEADER_SIZE > InputBufferLength
          \/ FUSE_PROTO_RSP_HEADER_SIZE > rspLen
          \/ rspLen > InputBufferLength
    THEN STATUS_INVALID_PARAMETER
    ELSE IF 0 # OutputBufferLength /\ FUSE_PROTO_REQ_SIZEMIN > OutputBufferLength
    THEN STATUS_BUFFER_TOO_SMALL
    ELSE STATUS_SUCCESS

\* (mutant) a response that matches no context fails the call
EndProcessingThread_StaleFails(th, c) ==
    IF 0 = c THEN ExitThread(th, STATUS_INVALID_PARAMETER)
    ELSE [th EXCEPT !.Context = RealContext(c), !.pc = "Complete"]

\* (mutant) the context the response names is dispatched whatever the
\* queue returned
EndProcessingThread_Trusting(th, c) ==
    IF 0 = th.rspUnique THEN GotoRequest(th)
    ELSE [th EXCEPT !.Context = RealContext(th.rspUnique), !.pc = "Complete"]

\* completion phase: the call after FuseIoqEndProcessing returned c
EndProcessingThread(th, c) ==
    IF 0 = c THEN GotoRequest(th)
    ELSE [th EXCEPT !.Context = RealContext(c), !.pc = "Complete"]

\* a worker enters FuseDeviceTransact with the given exchange buffer: the
\* parameters are checked and, with a response, the processing set is
\* consulted.  (Idle workers are interchangeable: the lowest-numbered one
\* issues the next call.)
TransactWith(t, il, rl, u, ol) ==
    /\ thr[t].pc = "idle"
    /\ Running
    /\ \A w \in Workers : w < t => thr[w].pc # "idle"
    /\ calls < MaxCalls
    /\ calls' = calls + 1
    /\ LET th == [thr[t] EXCEPT !.InputBufferLength = il, !.OutputBufferLength = ol,
                                !.rspLen = rl, !.rspUnique = u]
           chk == CheckParameters(il, rl, ol)
       IN IF ~NT_SUCCESS(chk)
          THEN /\ thr' = [thr EXCEPT ![t] = ExitThread(th, chk)]
               /\ UNCHANGED processing
          ELSE IF 0 # il
          THEN /\ thr' = [thr EXCEPT ![t] =
                      EndProcessingThread(th, FuseIoqEndProcessing(processing, u))]
               /\ processing' = FuseIoqEndProcessingSet(processing, u)
          ELSE /\ thr' = [thr EXCEPT ![t] = GotoRequest(th)]
               /\ UNCHANGED processing
    /\ UNCHANGED <<VersionMajor, InitEvent, pending, ctx, req, bugcheck, setter, Ioq, Cache>>

\* a worker enters FuseDeviceTransact with some exchange buffer
Transact(t) ==
    /\ thr[t].pc = "idle"
    /\ Running
    /\ \E b \in ExchangeBuffers : TransactWith(t, b.il, b.rl, b.u, b.ol)

\* FuseContextProcess: the Kind whose handler is called for a real context
ProcessKind(cx, c) ==
    IF 0 = cx[c].InternalRequest THEN FspFsctlTransactReservedKind ELSE cx[c].Kind

\* (mutant) a context whose handler continues is not re-posted
CompletePosts_Never(Continue) == FALSE
\* completion phase: is the dispatched context re-posted to the pending set
CompletePosts(Continue) == Continue
\* completion phase: is the context's internal response forwarded
CompleteForwards(Continue, InternalRequest) == ~Continue /\ 0 # InternalRequest
\* (mutant) the deletion also runs after a re-post
CompleteDeletes_Always(Continue) == TRUE
\* completion phase: is the context deleted
CompleteDeletes(Continue) == ~Continue

\* completion phase: the handler runs against the response and returns
\* Continue; then the context is re-posted, or deleted, or its internal
\* response is forwarded (with Result) and it is deleted
CompleteWith(t, Continue, Result) ==
    /\ thr[t].pc = "Complete"
    /\ Running
    /\ FuseProcessFunction(ProcessKind(ctx, thr[t].Context.val))
    /\ LET c == thr[t].Context.val
           r == ctx[c].InternalRequest
           fwd == CompleteForwards(Continue, r)
           sent == IF fwd THEN SendResponse(req, r, InternalResponseOf(ctx, c)) ELSE req
           th == [thr[t] EXCEPT !.Continue = Continue,
                                !.Posted = IF CompletePosts(Continue) THEN c ELSE 0]
       IN /\ fwd \/ Result = STATUS_SUCCESS
          /\ pending' = IF CompletePosts(Continue)
                        THEN FuseIoqPostPending(pending, c) ELSE pending
          /\ req' = IF CompleteDeletes(Continue)
                    THEN FuseContextDeleteReq(sent, ctx, c) ELSE sent
          /\ ctx' = IF CompleteDeletes(Continue)
                    THEN FuseContextDeleteCtx(ctx, c) ELSE ctx
          /\ thr' = [thr EXCEPT ![t] =
                IF fwd /\ ~NT_SUCCESS(Result) THEN ExitThread(th, Result)
                ELSE GotoRequest(th)]
    /\ UNCHANGED <<VersionMajor, InitEvent, processing, bugcheck, setter, calls, Ioq, Cache>>

Complete(t) ==
    /\ thr[t].pc = "Complete"
    /\ Running
    /\ \E Continue \in BOOLEAN, Result \in SendResults : CompleteWith(t, Continue, Result)

\* (mutant) the negotiation is consulted whatever the pending set holds
NextPendingThread_GateFirst(th, c) ==
    [th EXCEPT !.pc = "ReadVersion", !.Posted = 0]

\* (mutant) the negotiation is consulted with the pending context in hand
NextPendingThread_KeepsContext(th, c) ==
    IF 0 = c THEN [th EXCEPT !.pc = "ReadVersion", !.Posted = 0]
    ELSE [th EXCEPT !.Context = RealContext(c), !.pc = "ReadVersion",
                    !.Posted = IF c = @ THEN c ELSE 0]

\* request phase: the call after FuseIoqNextPending returned c
NextPendingThread(th, c) ==
    IF 0 = c THEN [th EXCEPT !.pc = "ReadVersion", !.Posted = 0]
    ELSE [th EXCEPT !.Context = RealContext(c), !.pc = "Dispose",
                    !.Posted = IF c = @ THEN c ELSE 0]

\* request phase: take the oldest pending context, if there is one
NextPending(t) ==
    /\ thr[t].pc = "NextPending"
    /\ Running
    /\ pending' = FuseIoqNextPendingSeq(pending)
    /\ thr' = [thr EXCEPT ![t] = NextPendingThread(thr[t], FuseIoqNextPending(pending))]
    /\ UNCHANGED <<VersionMajor, InitEvent, processing, ctx, req, bugcheck, setter, calls, Ioq, Cache>>

\* (mutant) the failure value is not tested for
CheckVersion_NoSentinel(th) == [th EXCEPT !.pc = "Fetch"]

\* the call once VersionMajor is known not to be 0
CheckVersion(th) ==
    IF VersionFailed = th.VersionMajor
    THEN ExitThread(th, STATUS_ACCESS_DENIED)
    ELSE [th EXCEPT !.pc = "Fetch"]

\* bootstrap: UINT32 VersionMajor = DeviceExtension->VersionMajor
ReadVersion(t) ==
    /\ thr[t].pc = "ReadVersion"
    /\ Running
    /\ LET th == [thr[t] EXCEPT !.VersionMajor = VersionMajor]
       IN thr' = [thr EXCEPT ![t] =
                IF 0 = VersionMajor THEN [th EXCEPT !.pc = "Wait"]
                ELSE CheckVersion(th)]
    /\ UNCHANGED <<VersionMajor, InitEvent, pending, processing, ctx, req, bugcheck, setter, calls, Ioq, Cache>>

\* KeInitializeEvent(.., NotificationEvent, FALSE): a satisfied wait leaves
\* a notification event signalled
InitEventAfterWait == TRUE

\* FsRtlCancellableWaitForSingleObject returns STATUS_SUCCESS (the gate is
\* signalled) and VersionMajor is read again
WaitSatisfied(t) ==
    /\ thr[t].pc = "Wait"
    /\ Running
    /\ InitEvent
    /\ InitEvent' = InitEventAfterWait
    /\ thr' = [thr EXCEPT ![t] =
            CheckVersion([thr[t] EXCEPT !.VersionMajor = VersionMajor])]
    /\ UNCHANGED <<VersionMajor, pending, processing, ctx, req, bugcheck, setter, calls, Ioq, Cache>>

\* the results with which the wait ends before the gate is signalled
WaitInterrupts == {STATUS_CANCELLED, STATUS_TIMEOUT, STATUS_THREAD_IS_TERMINATING}

\* (mutant) a timeout or a terminating thread is not turned into a
\* cancellation
WaitResult_NoRemap(Result) == Result

\* the Result the call leaves the wait with
WaitResult(Result) ==
    IF STATUS_TIMEOUT = Result \/ STATUS_THREAD_IS_TERMINATING = Result
    THEN STATUS_CANCELLED
    ELSE Result

\* FsRtlCancellableWaitForSingleObject ends by cancellation of the Irp, by
\* timeout or because the thread terminates
WaitInterruptedWith(t, w) ==
    /\ thr[t].pc = "Wait"
    /\ Running
    /\ ~InitEvent
    /\ thr' = [thr EXCEPT ![t] =
            IF ~NT_SUCCESS(WaitResult(w)) THEN ExitThread(thr[t], WaitResult(w))
            ELSE CheckVersion([thr[t] EXCEPT !.VersionMajor = VersionMajor])]
    /\ UNCHANGED <<VersionMajor, InitEvent, pending, processing, ctx, req, bugcheck, setter, calls, Ioq, Cache>>

WaitInterrupted(t) == \E w \in WaitInterrupts : WaitInterruptedWith(t, w)

\* the kinds of the internal requests the host framework hands out
HostKinds == {FspFsctlTransactCreateKind, FspFsctlTransactOverwriteKind}

\* the internal request the host framework hands out next, 0 if it has none
NextHostRequest(rq) ==
    IF \E r \in RequestIds : rq[r].state = "host"
    THEN CHOOSE r \in RequestIds :
            /\ rq[r].state = "host"
            /\ \A q \in RequestIds : rq[q].state = "host" => r <= q
    ELSE 0

\* FuseAlloc(sizeof *Context): the context allocated, 0 if none is left
FuseAlloc(cx) ==
    IF \E c \in ContextIds : cx[c].state = "unalloc"
    THEN CHOOSE c \in ContextIds :
            /\ cx[c].state = "unalloc"
            /\ \A d \in ContextIds : cx[d].state = "unalloc" => c <= d
    ELSE 0

\* FuseContextCreate: the value stored in *PContext; c is what FuseAlloc
\* returned
FuseContextCreate(Kind, c) ==
    IF ~FuseProcessFunction(Kind)
    THEN FuseContextStatus(STATUS_INVALID_DEVICE_REQUEST)
    ELSE IF 0 = c
    THEN FuseContextStatus(STATUS_INSUFFICIENT_RESOURCES)
    ELSE RealContext(c)

\* FuseContextCreate: the fields of the new context
FuseContextInit(InternalRequest, Kind, Hint) ==
    [state |-> "live", InternalRequest |-> InternalRequest, Kind |-> Kind,
     Hint |-> IF 0 # InternalRequest THEN Hint ELSE 0, Status |-> 0,
     deletes |-> 0]

\* bootstrap: fetch an internal request from the host framework and create
\* its context
Fetch(t) ==
    /\ thr[t].pc = "Fetch"
    /\ Running
    /\ \E Result \in SendResults :
       \E r \in (IF NT_SUCCESS(Result) THEN {0, NextHostRequest(req)} ELSE {0}) :
         IF ~NT_SUCCESS(Result)
         THEN /\ thr' = [thr EXCEPT ![t] = ExitThread(thr[t], Result)]
              /\ UNCHANGED <<ctx, req, Ioq, Cache>>
         ELSE IF 0 = r
         THEN /\ thr' = [thr EXCEPT ![t] =
                    [ExitThread(thr[t], STATUS_SUCCESS) EXCEPT !.Information = 0]]
              /\ UNCHANGED <<ctx, req, Ioq, Cache>>
         ELSE \E Kind \in HostKinds, alloc \in {0, FuseAlloc(ctx)} :
                LET Context == FuseContextCreate(Kind, alloc)
                    th == [thr[t] EXCEPT !.Context = Context, !.Continue = FALSE,
                                         !.pc = "Dispose"]
                IN /\ req' = [req EXCEPT ![r].state = "fetched", ![r].Kind = Kind,
                                         ![r].Hint = HintOf(r)]
                   /\ IF FuseContextIsStatus(Context)
                      THEN /\ ctx' = ctx
                           /\ thr' = [thr EXCEPT ![t] =
                                        [th EXCEPT !.InternalRequest = r]]
                      ELSE /\ ctx' = [ctx EXCEPT ![Context.val] =
                                        FuseContextInit(r, Kind, HintOf(r))]
                           /\ thr' = [thr EXCEPT ![t] =
                                        [th EXCEPT !.InternalRequest = 0]]
    /\ UNCHANGED <<VersionMajor, InitEvent, pending, processing, bugcheck, setter, calls, Ioq, Cache>>

\* the lengths a handler leaves in the len field of the request slot
HandlerLens == {0, FUSE_PROTO_REQ_HEADER_SIZE}

\* (mutant) a successful request phase reports nothing written
Succeed_NoLength(th) ==
    [ExitThread(th, STATUS_SUCCESS) EXCEPT !.Information = 0]

\* the call succeeds: Irp->IoStatus.Information = FuseRequest->len
Succeed(th) ==
    [ExitThread(th, STATUS_SUCCESS) EXCEPT !.Information = th.reqLen]

\* (mutant) a context whose handler continues is not moved to processing
DisposeStarts_Never(Continue) == FALSE
\* request phase: is the dispatched context moved to the processing set
DisposeStarts(Continue) == Continue
\* request phase: is the context's internal response forwarded and the
\* context deleted
DisposeForwards(Continue, InternalRequest) == ~Continue /\ 0 # InternalRequest

\* request phase, real context: the handler runs against the request slot,
\* leaves len there and returns Continue; then the context is moved to the
\* processing set, or left alone, or its internal response is forwarded
\* (with Result) and it is deleted
DisposeWith(t, Continue, len, Result) ==
    /\ thr[t].pc = "Dispose"
    /\ Running
    /\ ~FuseContextIsStatus(thr[t].Context)
    /\ FuseProcessFunction(ProcessKind(ctx, thr[t].Context.val))
    /\ LET c == thr[t].Context.val
           r == ctx[c].InternalRequest
           fwd == ~DisposeStarts(Continue) /\ DisposeForwards(Continue, r)
           sent == IF fwd THEN SendResponse(req, r, InternalResponseOf(ctx, c)) ELSE req
           th == [thr[t] EXCEPT !.Continue = Continue, !.reqLen = len]
       IN /\ fwd \/ Result = STATUS_SUCCESS
          /\ processing' = IF DisposeStarts(Continue)
                           THEN FuseIoqStartProcessing(processing, c) ELSE processing
          /\ req' = ExitReq(IF fwd THEN FuseContextDeleteReq(sent, ctx, c) ELSE sent, th)
          /\ ctx' = IF fwd THEN FuseContextDeleteCtx(ctx, c) ELSE ctx
          /\ thr' = [thr EXCEPT ![t] =
                IF fwd /\ ~NT_SUCCESS(Result) THEN ExitThread(th, Result)
                ELSE Succeed(th)]
    /\ UNCHANGED <<VersionMajor, InitEvent, pending, bugcheck, setter, calls, Ioq, Cache>>

Dispose(t) ==
    /\ thr[t].pc = "Dispose"
    /\ Running
    /\ \E Continue \in BOOLEAN, len \in HandlerLens, Result \in SendResults :
      DisposeWith(t, Continue, len, Result)

\* request phase, status-only context: with Continue FALSE the bridge
\* evaluates 0 == Context->InternalRequest on the encoded status, a read
\* through a pointer that addresses no context.  The read faults, or it
\* yields zero, or it yields something else.
DisposeStatus(t, read) ==
    /\ thr[t].pc = "Dispose"
    /\ Running
    /\ FuseContextIsStatus(thr[t].Context)
    /\ ~thr[t].Continue
    /\ LET r == thr[t].InternalRequest
       IN CASE read = "fault" ->
                 /\ bugcheck' = TRUE
                 /\ thr' = [thr EXCEPT ![t] = [thr[t] EXCEPT !.pc = "bugcheck"]]
                 /\ UNCHANGED req
            [] read = "zero" ->
                 /\ thr' = [thr EXCEPT ![t] = Succeed(thr[t])]
                 /\ req' = ExitReq(req, thr[t])
                 /\ UNCHANGED bugcheck
            [] OTHER ->
                 \E Result \in SendResults :
                   LET InternalResponse ==
                         [Kind |-> req[r].Kind, Hint |-> req[r].Hint,
                          Status |-> FuseContextToStatus(thr[t].Context)]
                   IN /\ req' = ExitReq(SendResponse(req, r, InternalResponse),
                                        thr[t])
                      /\ thr' = [thr EXCEPT ![t] =
                            IF ~NT_SUCCESS(Result) THEN ExitThread(thr[t], Result)
                            ELSE Succeed(thr[t])]
                      /\ UNCHANGED bugcheck
    /\ UNCHANGED <<VersionMajor, InitEvent, pending, processing, ctx, setter, calls, Ioq, Cache>>

\* this step of worker t evaluates 0 == Context->InternalRequest with a
\* status-only Context
ReadsThroughStatus(t) ==
    /\ thr[t].pc = "Dispose" /\ thr'[t].pc # "Dispose"
    /\ FuseContextIsStatus(thr[t].Context)
    /\ ~thr[t].Continue

\* the Irp is completed; the worker may issue its next exchange call
Return(t) ==
    /\ ~bugcheck
    /\ thr[t].pc = "ret"
    /\ thr' = [thr EXCEPT ![t] = IdleThread]
    /\ UNCHANGED <<VersionMajor, InitEvent, pending, processing, ctx, req, bugcheck, setter, calls, Ioq, Cache>>

(* ------------------------------ environment --------------------------- *)
\* the negotiation path stores the negotiated version or the failure value
SetVersion ==
    /\ Running
    /\ setter = "start"
    /\ \E v \in {VersionNegotiated, VersionFailed} : VersionMajor' = v
    /\ setter' = "stored"
    /\ UNCHANGED <<InitEvent, pending, processing, ctx, req, bugcheck, calls, thr, Ioq, Cache>>

\* ... and then signals the gate
SignalGate ==
    /\ Running
    /\ setter = "stored"
    /\ InitEvent' = TRUE
    /\ setter' = "signalled"
    /\ UNCHANGED <<VersionMajor, pending, processing, ctx, req, bugcheck, calls, thr, Ioq, Cache>>

\* the context of the reserved kind, with no internal request, is created
\* and posted to the pending set (once for the volume)
PostReserved ==
    /\ Running
    /\ FuseAlloc(ctx) # 0
    /\ \A c \in ContextIds : ctx[c].state = "unalloc" \/ 0 # ctx[c].InternalRequest
    /\ LET c == FuseAlloc(ctx)
       IN /\ ctx' = [ctx EXCEPT ![c] =
                        FuseContextInit(0, FspFsctlTransactReservedKind, 0)]
          /\ pending' = FuseIoqPostPending(pending, c)
    /\ UNCHANGED <<VersionMajor, InitEvent, processing, req, bugcheck, setter, calls, thr, Ioq, Cache>>

\* FuseDeviceFini: the cache, then the queue, is destroyed if it was created.
\* The host framework calls it once, when FuseDeviceInit failed or when the
\* volume goes away, with no exchange call in progress.  The two sets go
\* with the queue; FuseDeviceFini itself deletes no context and frees no
\* request buffer.
FuseDeviceFini ==
    /\ ~bugcheck
    /\ \A t \in Workers : thr[t].pc = "idle"
    /\ "deleted" \notin {Ioq, Cache}
    /\ Cache' = IF "null" # Cache THEN "deleted" ELSE Cache
    /\ Ioq' = IF "null" # Ioq THEN "deleted" ELSE Ioq
    /\ pending' = <<>>
    /\ processing' = {}
    /\ UNCHANGED <<VersionMajor, InitEvent, ctx, req, bugcheck, setter, calls, thr>>

Next ==
    \/ FuseDeviceFini
    \/ \E t \in Workers : Transact(t)
    \/ \E t \in Workers : Complete(t)
    \/ \E t \in Workers : NextPending(t)
    \/ \E t \in Workers : ReadVersion(t)
    \/ \E t \in Workers : WaitSatisfied(t)
    \/ \E t \in Workers : WaitInterrupted(t)
    \/ \E t \in Workers : Fetch(t)
    \/ \E t \in Workers : Dispose(t)
    \/ \E t \in Workers : DisposeStatus(t, "fault")
    \/ \E t \in Workers : DisposeStatus(t, "zero")
    \/ \E t \in Workers : DisposeStatus(t, "nonzero")
    \/ \E t \in Workers : Return(t)
    \/ SetVersion
    \/ SignalGate
    \/ PostReserved

Spec == Init /\ [][Next]_vars


(* ============================ properties ============================== *)
Bool(b) == IF b THEN 1 ELSE 0

\* the workers whose running call has the real context c in hand
Holders(c) ==
    {t \in Workers : /\ thr[t].pc \in {"Complete", "Dispose"}
                     /\ thr[t].Context = RealContext(c)}

\* how often c occurs in the sequence pend
PendingCountIn(pend, c) == Cardinality({i \in 1..Len(pend) : pend[i] = c})

\* how often c occurs in the pending set
PendingCount(c) == PendingCountIn(pending, c)

\* in how many of {pending set, processing set, a running dispatch} c is
Owners(c) == PendingCount(c) + Bool(c \in processing) + Cardinality(Holders(c))

Created == {c \in ContextIds : ctx[c].state # "unalloc"}

(* C1: while the queue exists, every real context that exists is in        *)
(* exactly one of these states: in the pending set, in the processing set, *)
(* in the hands of a call that has not returned yet, or destroyed by       *)
(* FuseContextDelete exactly once.  So when a call returns, each context   *)
(* it took or created is in one of the two sets or destroyed once.         *)
C1_ExactlyOneDisposition ==
    "deleted" # Ioq => \A c \in Created : Owners(c) + ctx[c].deletes = 1

(* C2: a context is never in two of {pending set, processing set, a call   *)
(* dispatching it} at once, never in the hands of two calls, and a         *)
(* destroyed context is in none of them: it is touched only between the    *)
(* queue handing it out and its being re-posted, started or destroyed.     *)
C2_ExclusiveOwnership ==
    \A c \in Created :
        /\ Owners(c) <= 1
        /\ ctx[c].deletes <= 1
        /\ ctx[c].deletes = 1 => Owners(c) = 0
        /\ Owners(c) = 1 => ctx[c].state = "live"

\* two calls dispatch two contexts at the same time, a third owner being
\* one of the queue's sets or nobody
C2_Witness ==
    \E t1, t2 \in Workers : \E c1, c2 \in Created :
        /\ t1 # t2 /\ c1 # c2
        /\ t1 \in Holders(c1) /\ thr[t1].pc = "Complete"
        /\ t2 \in Holders(c2) /\ thr[t2].pc = "Dispose"


\* the last response forwarded for internal request r
LastResponse(rq, r) == rq[r].responses[Len(rq[r].responses)]

(* C3: a context whose request-phase handler returns Continue enters the   *)
(* processing set, untouched otherwise; and when the handler of a context  *)
(* taken from the processing set by a response returns not-Continue, the   *)
(* context's internal response is forwarded once, the context is deleted   *)
(* once, and it is in neither set afterwards.                              *)
C3_MultiRoundTrip ==
    [][\A t \in Workers :
        /\ thr[t].pc = "Dispose" /\ thr'[t].pc # "Dispose"
           => \A len \in HandlerLens :
                DisposeWith(t, TRUE, len, STATUS_SUCCESS)
                => LET c == thr[t].Context.val
                   IN /\ c \in processing'
                      /\ PendingCountIn(pending', c) = 0
                      /\ ctx' = ctx
                      /\ \A r \in RequestIds : req'[r].responses = req[r].responses
        /\ thr[t].pc = "Complete" /\ thr'[t].pc # "Complete"
           => \A Result \in SendResults :
                /\ CompleteWith(t, FALSE, Result)
                /\ 0 # ctx[thr[t].Context.val].InternalRequest
                => LET c == thr[t].Context.val
                       r == ctx[c].InternalRequest
                   IN /\ Len(req'[r].responses) = Len(req[r].responses) + 1
                      /\ LastResponse(req', r) = InternalResponseOf(ctx, c)
                      /\ ctx[c].deletes = 0 /\ ctx'[c].deletes = 1
                      /\ ctx'[c].state = "freed"
                      /\ c \notin processing'
                      /\ PendingCountIn(pending', c) = 0
      ]_vars

\* a call that brought the response of a context with an internal request
\* has returned; the context was deleted once and one response forwarded
C3_Witness ==
    \E t \in Workers : \E c \in Created :
        /\ thr[t].pc = "ret" /\ thr[t].Result = STATUS_SUCCESS
        /\ 0 # thr[t].InputBufferLength
        /\ thr[t].rspUnique = c
        /\ thr[t].Context = RealContext(c)
        /\ ~thr[t].Continue
        /\ 0 # ctx[c].InternalRequest
        /\ ctx[c].deletes = 1
        /\ Len(req[ctx[c].InternalRequest].responses) = 1
        /\ Owners(c) = 0

(* C4: when the bootstrap path fetched an internal request whose Kind has  *)
(* no handler, the rest of the request phase leaves both queue sets and    *)
(* every context alone, forwards one response with                         *)
(* STATUS_INVALID_DEVICE_REQUEST and the request's Kind and Hint, frees    *)
(* the fetched request once, and the call returns with nothing written:    *)
(* with success, or with the failure the forwarding returned.              *)
C4_UnsupportedKindForwarded ==
    [][\A t \in Workers :
        /\ thr[t].pc = "Dispose"
        /\ thr[t].Context = FuseContextStatus(STATUS_INVALID_DEVICE_REQUEST)
        /\ thr'[t] # thr[t]
        => LET r == thr[t].InternalRequest
           IN /\ thr'[t].pc = "ret"
              /\ thr'[t].Result \in SendResults
              /\ thr'[t].Information = 0
              /\ UNCHANGED <<pending, processing, ctx>>
              /\ req'[r].responses =
                    Append(req[r].responses,
                           [Kind |-> req[r].Kind, Hint |-> req[r].Hint,
                            Status |-> STATUS_INVALID_DEVICE_REQUEST])
              /\ req[r].frees = 0 /\ req'[r].frees = 1
      ]_vars

\* the claim's condition on a response: it is there and its header or
\* length bounds are bad
Malformed(il, rl) ==
    /\ 0 # il
    /\ \/ FUSE_PROTO_RSP_HEADER_SIZE > il
       \/ FUSE_PROTO_RSP_HEADER_SIZE > rl
       \/ rl > il

QueueAndHeapUnchanged == UNCHANGED <<pending, processing, ctx, req>>

\* this step is worker t entering FuseDeviceTransact with exchange buffer b.
\* (TransactWith implies the two tests before it, which are there to be
\* evaluated first: a call keeps its output length, and its response
\* fields unless it has gone on to the request phase.)
Entered(t, b) ==
    /\ b.ol = thr'[t].OutputBufferLength
    /\ thr'[t].pc # "NextPending"
       => /\ b.il = thr'[t].InputBufferLength
          /\ b.rl = thr'[t].rspLen
          /\ b.u = thr'[t].rspUnique
    /\ TransactWith(t, b.il, b.rl, b.u, b.ol)

(* C5: a call with a malformed response (input shorter than the response   *)
(* header, len shorter than the header, or len beyond the input) returns   *)
(* STATUS_INVALID_PARAMETER and changes neither set, no context and        *)
(* nothing at the host framework.                                          *)
C5_MalformedResponse ==
    [][\A t \in Workers :
        thr[t].pc = "idle" /\ thr'[t].pc # "idle"
        => \A b \in ExchangeBuffers :
             Malformed(b.il, b.rl) /\ Entered(t, b)
             => /\ thr'[t].pc = "ret"
                /\ thr'[t].Result = STATUS_INVALID_PARAMETER
                /\ QueueAndHeapUnchanged
      ]_vars

\* a call whose response is longer than its input region has been
\* rejected while a context waits in the processing set
C5_Witness ==
    \E t \in Workers :
        /\ thr[t].pc = "ret" /\ thr[t].Result = STATUS_INVALID_PARAMETER
        /\ thr[t].rspLen > thr[t].InputBufferLength
        /\ thr[t].InputBufferLength = FUSE_PROTO_RSP_HEADER_SIZE
        /\ processing # {}

(* C6, as stated: a call with an output region below the minimum request   *)
(* size returns STATUS_BUFFER_TOO_SMALL and changes nothing.               *)
C6_SmallOutputAlwaysTooSmall ==
    [][\A t \in Workers :
        thr[t].pc = "idle" /\ thr'[t].pc # "idle"
        => \A b \in ExchangeBuffers :
             /\ 0 # b.ol /\ FUSE_PROTO_REQ_SIZEMIN > b.ol
             /\ Entered(t, b)
             => /\ thr'[t].pc = "ret"
                /\ thr'[t].Result = STATUS_BUFFER_TOO_SMALL
                /\ QueueAndHeapUnchanged
      ]_vars

(* C6, amended: a call with an output region below the minimum request     *)
(* size changes nothing and returns STATUS_BUFFER_TOO_SMALL when it brings *)
(* no response or a well-formed one, STATUS_INVALID_PARAMETER when it      *)
(* brings a malformed one.                                                 *)
C6_SmallOutputRejected ==
    [][\A t \in Workers :
        thr[t].pc = "idle" /\ thr'[t].pc # "idle"
        => \A b \in ExchangeBuffers :
             /\ 0 # b.ol /\ FUSE_PROTO_REQ_SIZEMIN > b.ol
             /\ Entered(t, b)
             => /\ thr'[t].pc = "ret"
                /\ thr'[t].Result = IF Malformed(b.il, b.rl)
                                    THEN STATUS_INVALID_PARAMETER
                                    ELSE STATUS_BUFFER_TOO_SMALL
                /\ QueueAndHeapUnchanged
      ]_vars

\* a call with a small output region was rejected although its well-formed
\* response names a context in the processing set, which is still there
C6_Witness ==
    \E t \in Workers :
        /\ thr[t].pc = "ret" /\ thr[t].Result = STATUS_BUFFER_TOO_SMALL
        /\ ~Malformed(thr[t].InputBufferLength, thr[t].rspLen)
        /\ 0 # thr[t].InputBufferLength
        /\ thr[t].rspUnique \in processing
        /\ ctx[thr[t].rspUnique].state = "live"

(* C7: a call with a well-formed response whose unique id is not in the    *)
(* processing set changes neither set, no context and nothing at the host  *)
(* framework in its completion phase; it goes on to the request phase if   *)
(* it has an output region and returns success otherwise.                  *)
C7_StaleResponse ==
    [][\A t \in Workers :
        thr[t].pc = "idle" /\ thr'[t].pc # "idle"
        => \A b \in ExchangeBuffers :
             /\ 0 # b.il
             /\ NT_SUCCESS(CheckParameters(b.il, b.rl, b.ol))
             /\ b.u \notin processing
             /\ Entered(t, b)
             => /\ QueueAndHeapUnchanged
                /\ thr'[t].Context = NullContext
                /\ IF 0 # b.ol
                   THEN thr'[t].pc = "NextPending"
                   ELSE /\ thr'[t].pc = "ret"
                        /\ thr'[t].Result = STATUS_SUCCESS
      ]_vars

\* a call returned success for a response that named none of the contexts
\* then in the processing set
C7_Witness ==
    \E t \in Workers :
        /\ thr[t].pc = "ret" /\ thr[t].Result = STATUS_SUCCESS
        /\ 0 # thr[t].InputBufferLength
        /\ thr[t].Context = NullContext
        /\ thr[t].rspUnique \notin processing
        /\ processing # {}

(* C8: a call with a well-formed response dispatches a context exactly     *)
(* when the response's unique id is in the processing set, and takes it    *)
(* out of the set, so a second response with that id finds nothing; a      *)
(* context leaves the processing set of a queue that still exists only     *)
(* into the hands of one such call, which is then the only call that has   *)
(* it.                                                                     *)
C8_AtMostOneDelivery ==
    [][/\ \A t \in Workers :
            thr[t].pc = "idle" /\ thr'[t].pc # "idle"
            => \A b \in ExchangeBuffers :
                 /\ 0 # b.il
                 /\ NT_SUCCESS(CheckParameters(b.il, b.rl, b.ol))
                 /\ Entered(t, b)
                 => /\ b.u \in processing
                       <=> /\ thr'[t].pc = "Complete"
                           /\ thr'[t].Context = RealContext(b.u)
                    /\ b.u \notin processing'
                    /\ processing' = processing \ {b.u}
       /\ processing' # processing /\ "deleted" # Ioq'
          => \A c \in processing \ processing' :
               \E t \in Workers :
                 /\ thr[t].pc = "idle"
                 /\ Holders(c)' = {t}
                 /\ PendingCountIn(pending', c) = 0
      ]_vars

\* two responses named the same context: one call dispatches it, the other
\* found nothing and returned
C8_Witness ==
    \E t1, t2 \in Workers :
        /\ t1 # t2
        /\ thr[t1].pc = "Complete"
        /\ thr[t2].pc = "ret" /\ thr[t2].Result = STATUS_SUCCESS
        /\ 0 # thr[t2].InputBufferLength
        /\ thr[t2].Context = NullContext
        /\ thr[t1].Context = RealContext(thr[t2].rspUnique)

\* negotiation has failed and the gate is signalled
GateFailed == VersionFailed = VersionMajor /\ InitEvent

(* C9: once VersionMajor is the failure value and the gate is signalled,   *)
(* that stays so; every call that leaves the version check or the wait     *)
(* returns STATUS_ACCESS_DENIED; no call is at or enters the fetch; no     *)
(* internal request leaves the host framework and no context is created    *)
(* for one.                                                                *)
C9_FailedNegotiationDenies ==
    [][GateFailed
       => /\ GateFailed'
          /\ \A t \in Workers :
               /\ thr[t].pc # "Fetch" /\ thr'[t].pc # "Fetch"
               /\ thr[t].pc \in {"ReadVersion", "Wait"} /\ thr'[t].pc # thr[t].pc
                  => /\ thr'[t].pc = "ret"
                     /\ thr'[t].Result = STATUS_ACCESS_DENIED
          /\ \A r \in RequestIds : req'[r] = req[r] /\ req[r].state = "host"
          /\ \A c \in ContextIds :
               ctx[c].state = "unalloc" /\ ctx'[c].state # "unalloc"
               => 0 = ctx'[c].InternalRequest
      ]_vars

\* after the failure was signalled one call has been denied while another
\* is still blocked on the gate
C9_Witness ==
    /\ GateFailed
    /\ \E t1, t2 \in Workers :
        /\ thr[t1].pc = "ret" /\ thr[t1].Result = STATUS_ACCESS_DENIED
        /\ thr[t1].VersionMajor = VersionFailed
        /\ thr[t2].pc = "Wait" /\ thr[t2].VersionMajor = 0

(* ------------------------------ liveness ------------------------------ *)
\* a call that can proceed eventually does, and a completed Irp is returned
LiveSpec ==
    /\ Spec
    /\ \A t \in Workers : WF_vars(WaitSatisfied(t)) /\ WF_vars(Return(t))

(* C10: a call that is blocked on the gate when a non-zero version has     *)
(* been stored and the gate signalled eventually leaves the wait with the  *)
(* version it read after waking, which is the stored one.                  *)
C10_GateWakesEveryWaiter ==
    \A t \in Workers :
        (thr[t].pc = "Wait" /\ InitEvent /\ 0 # VersionMajor)
        ~> (thr[t].pc # "Wait" /\ thr[t].VersionMajor = VersionMajor)

\* the same, for the behaviours in which the system keeps running
GateWakesUnlessBugcheck ==
    \A t \in Workers :
        (thr[t].pc = "Wait" /\ InitEvent /\ 0 # VersionMajor)
        ~> (bugcheck \/ (thr[t].pc # "Wait" /\ thr[t].VersionMajor = VersionMajor))


(* C11: when the wait on the gate ends by cancellation, by timeout or      *)
(* because the thread terminates, the call returns STATUS_CANCELLED, and   *)
(* the step changes neither set, no context and nothing at the host        *)
(* framework: nothing is fetched and no context is created.                *)
C11_InterruptedWaitCancels ==
    [][\A t \in Workers :
        thr[t].pc = "Wait" /\ thr'[t].pc # "Wait"
        => \A w \in WaitInterrupts :
             WaitInterruptedWith(t, w)
             => /\ thr'[t].pc = "ret"
                /\ thr'[t].Result = STATUS_CANCELLED
                /\ ~NT_SUCCESS(thr'[t].Result)
                /\ thr'[t].Context = NullContext
                /\ 0 = thr'[t].InternalRequest
                /\ QueueAndHeapUnchanged
      ]_vars

\* a call has returned from an interrupted wait, before the gate was
\* signalled, while the host framework has a request to hand out
C11_Witness ==
    \E t \in Workers :
        /\ thr[t].pc = "ret" /\ thr[t].Result = STATUS_CANCELLED
        /\ thr[t].VersionMajor = 0
        /\ ~InitEvent
        /\ \E r \in RequestIds : req[r].state = "host"


\* this step hands an internal response to the host framework
ForwardedInStep ==
    \E r \in RequestIds : Len(req'[r].responses) = Len(req[r].responses) + 1

\* worker t's call returns a failure in this step
FailsInStep(t) ==
    /\ thr[t].pc # "ret" /\ thr'[t].pc = "ret"
    /\ ~NT_SUCCESS(thr'[t].Result)

\* the failure is that of a malformed exchange buffer (a bad response or
\* an output region that is too small)
FailsByBuffer(t) ==
    /\ thr[t].pc = "idle"
    /\ thr'[t].Result \in {STATUS_INVALID_PARAMETER, STATUS_BUFFER_TOO_SMALL}
    /\ thr'[t].Result = CheckParameters(thr'[t].InputBufferLength, thr'[t].rspLen,
                                        thr'[t].OutputBufferLength)

\* the failure is that of forwarding an internal response
FailsByForwarding(t) ==
    /\ thr[t].pc \in {"Complete", "Dispose"}
    /\ ForwardedInStep
    /\ thr'[t].Result \in SendResults

\* the failure is that of an interrupted wait on the gate
FailsByCancelledWait(t) ==
    /\ thr[t].pc = "Wait" /\ ~InitEvent
    /\ thr'[t].Result = STATUS_CANCELLED

\* the failure is that of the failed negotiation
FailsByNegotiation(t) ==
    /\ thr[t].pc \in {"ReadVersion", "Wait"}
    /\ VersionFailed = VersionMajor
    /\ thr'[t].Result = STATUS_ACCESS_DENIED

\* the failure is that of fetching an internal request
FailsByFetching(t) ==
    /\ thr[t].pc = "Fetch"
    /\ thr'[t].Result \in SendResults
    /\ UNCHANGED <<ctx, req>>

(* C12: an operation-level failure (unsupported kind, context allocation   *)
(* failure) never fails the exchange call by itself and is delivered as a  *)
(* failed internal response through the forwarding path: the step with     *)
(* which a call leaves the dispatch with a status-only context hands the   *)
(* host framework one response with that status and the Kind and Hint of   *)
(* the fetched request, and the call returns success or the Result of      *)
(* that forwarding.                                                        *)
C12_OperationFailuresDelivered ==
    [][\A t \in Workers :
        /\ thr[t].pc = "Dispose"
        /\ FuseContextIsStatus(thr[t].Context)
        /\ thr'[t] # thr[t]
        => LET r == thr[t].InternalRequest
           IN /\ thr'[t].pc = "ret"
              /\ thr'[t].Result \in SendResults
              /\ req'[r].responses =
                    Append(req[r].responses,
                           [Kind |-> req[r].Kind, Hint |-> req[r].Hint,
                            Status |-> FuseContextToStatus(thr[t].Context)])
      ]_vars

\* What the code does keep: a call returns a failure only for a malformed
\* exchange buffer, a failed negotiation, a failure to fetch an internal
\* request, a failure to forward an internal response, or a cancelled
\* wait; and the status of a status-only context is never the call's
\* Result.
FailureCausesOfCall ==
    [][\A t \in Workers :
        /\ FailsInStep(t)
           => \/ FailsByBuffer(t)
              \/ FailsByNegotiation(t)
              \/ FailsByFetching(t)
              \/ FailsByForwarding(t)
              \/ FailsByCancelledWait(t)
        /\ /\ thr[t].pc = "Dispose" /\ thr'[t].pc = "ret"
           /\ FuseContextIsStatus(thr[t].Context)
           => \/ thr'[t].Result = STATUS_SUCCESS
              \/ ForwardedInStep /\ thr'[t].Result \in SendResults
      ]_vars


\* the host framework hands out nothing in this step
NothingFetched == \A r \in RequestIds : req'[r].state = req[r].state

(* C13: when forwarding an internal response fails, the call returns that  *)
(* failure.  In the completion phase the context is deleted with its       *)
(* internal request and the request phase is not run (the pending set is   *)
(* untouched, nothing is fetched); in the request phase a real context is  *)
(* deleted with its internal request; with a status-only context the       *)
(* fetched internal request is freed.                                      *)
C13_ForwardingFailure ==
    [][\A t \in Workers :
        /\ thr[t].pc = "Complete" /\ thr'[t].pc # "Complete"
           => \A Result \in SendResults :
                /\ ~NT_SUCCESS(Result)
                /\ CompleteWith(t, FALSE, Result)
                /\ 0 # ctx[thr[t].Context.val].InternalRequest
                => LET c == thr[t].Context.val
                       r == ctx[c].InternalRequest
                   IN /\ thr'[t].pc = "ret" /\ thr'[t].Result = Result
                      /\ ctx'[c].state = "freed" /\ ctx'[c].deletes = 1
                      /\ req[r].frees = 0 /\ req'[r].frees = 1
                      /\ pending' = pending /\ processing' = processing
                      /\ NothingFetched
        /\ thr[t].pc = "Dispose" /\ thr'[t].pc # "Dispose"
           /\ ~FuseContextIsStatus(thr[t].Context)
           => \A Result \in SendResults, len \in HandlerLens :
                /\ ~NT_SUCCESS(Result)
                /\ DisposeWith(t, FALSE, len, Result)
                /\ 0 # ctx[thr[t].Context.val].InternalRequest
                => LET c == thr[t].Context.val
                       r == ctx[c].InternalRequest
                   IN /\ thr'[t].pc = "ret" /\ thr'[t].Result = Result
                      /\ ctx'[c].state = "freed" /\ ctx'[c].deletes = 1
                      /\ req[r].frees = 0 /\ req'[r].frees = 1
        /\ /\ thr[t].pc = "Dispose" /\ thr'[t].pc # "Dispose"
           /\ FuseContextIsStatus(thr[t].Context)
           /\ ForwardedInStep
           /\ ~NT_SUCCESS(thr'[t].Result)
           => LET r == thr[t].InternalRequest
              IN /\ thr'[t].pc = "ret" /\ thr'[t].Result \in SendResults
                 /\ req[r].frees = 0 /\ req'[r].frees = 1
                 /\ ctx' = ctx
      ]_vars

\* a call with a response and an output region has returned the failure
\* of forwarding in its completion phase: its context is deleted, its
\* request phase did not run
C13_Witness ==
    \E t \in Workers : \E c \in Created :
        /\ thr[t].pc = "ret"
        /\ thr[t].Result \in SendResults /\ ~NT_SUCCESS(thr[t].Result)
        /\ 0 # thr[t].InputBufferLength /\ 0 # thr[t].OutputBufferLength
        /\ thr[t].Context = RealContext(c)
        /\ ctx[c].deletes = 1
        /\ req[ctx[c].InternalRequest].frees = 1
        /\ Len(req[ctx[c].InternalRequest].responses) = 1


(* C14: the output length of a successful call.  A call with neither       *)
(* region succeeds with 0 and changes nothing; any call without an output  *)
(* region that succeeds reports 0; a call that finds the pending set empty *)
(* and gets no internal request from the host framework succeeds with 0,   *)
(* creates no context and changes neither set; the len field is zeroed     *)
(* when the request phase starts, and a call that succeeds after a         *)
(* dispatch reports the len the handler left there, 0 if no handler ran.   *)
C14_OutputLength ==
    [][\A t \in Workers :
        /\ thr[t].pc = "idle" /\ thr'[t].pc # "idle"
           => \A b \in ExchangeBuffers :
                0 = b.il /\ 0 = b.ol /\ Entered(t, b)
                => /\ thr'[t].pc = "ret" /\ thr'[t].Result = STATUS_SUCCESS
                   /\ thr'[t].Information = 0
                   /\ QueueAndHeapUnchanged
        /\ /\ thr[t].pc # "ret" /\ thr'[t].pc = "ret"
           /\ NT_SUCCESS(thr'[t].Result)
           /\ 0 = thr'[t].OutputBufferLength
           => thr'[t].Information = 0
        /\ thr[t].pc # "NextPending" /\ thr'[t].pc = "NextPending"
           => thr'[t].reqLen = 0
        /\ thr[t].pc = "Fetch" /\ thr'[t].pc = "ret" /\ NT_SUCCESS(thr'[t].Result)
           => /\ thr'[t].Information = 0
              /\ QueueAndHeapUnchanged
        /\ thr[t].pc = "Dispose" /\ thr'[t].pc # "Dispose"
           /\ ~FuseContextIsStatus(thr[t].Context)
           => \A Continue \in BOOLEAN, len \in HandlerLens, Result \in SendResults :
                DisposeWith(t, Continue, len, Result) /\ NT_SUCCESS(thr'[t].Result)
                => /\ thr[t].reqLen = 0
                   /\ thr'[t].Information = len
        /\ /\ thr[t].pc = "Dispose" /\ thr'[t].pc = "ret"
           /\ FuseContextIsStatus(thr[t].Context)
           /\ NT_SUCCESS(thr'[t].Result)
           => thr'[t].Information = 0
      ]_vars

\* a call has succeeded after its handler wrote a request header
C14_Witness ==
    \E t \in Workers : \E c \in Created :
        /\ thr[t].pc = "ret" /\ thr[t].Result = STATUS_SUCCESS
        /\ thr[t].Context = RealContext(c)
        /\ 0 # thr[t].OutputBufferLength
        /\ thr[t].Information = FUSE_PROTO_REQ_HEADER_SIZE
        /\ thr[t].Continue /\ c \in processing


\* the routing of one dispatch: from the completion phase to the pending
\* set only, from the request phase to the processing set only, and a
\* status-only context to neither
RoutingOfDispatch(t) ==
    /\ thr[t].pc = "Complete" /\ thr'[t].pc # "Complete"
       => \A Result \in SendResults :
            CompleteWith(t, TRUE, Result)
            => LET c == thr[t].Context.val
               IN /\ pending' = Append(pending, c)
                  /\ processing' = processing /\ c \notin processing'
                  /\ ctx' = ctx
    /\ thr[t].pc = "Dispose" /\ thr'[t].pc # "Dispose"
       /\ ~FuseContextIsStatus(thr[t].Context)
       => \A len \in HandlerLens :
            DisposeWith(t, TRUE, len, STATUS_SUCCESS)
            => LET c == thr[t].Context.val
               IN /\ processing' = processing \cup {c}
                  /\ pending' = pending /\ PendingCountIn(pending', c) = 0
                  /\ ctx' = ctx
    /\ thr[t].pc = "Dispose" /\ thr'[t].pc # "Dispose"
       /\ FuseContextIsStatus(thr[t].Context)
       => pending' = pending /\ processing' = processing

\* a context enters a set or a dispatch only from the stage before it:
\* the processing set from a dispatch with a request slot, the pending set
\* from a dispatch with a response (or when it is created with no internal
\* request), a dispatch with a response from the processing set, a
\* dispatch with a request slot from the pending set (or when it is
\* created for a fetched internal request)
LifecycleOfContext(c) ==
    /\ c \in processing' /\ c \notin processing
       => \E t \in Workers : thr[t].pc = "Dispose" /\ thr[t].Context = RealContext(c)
    /\ PendingCountIn(pending', c) > PendingCount(c)
       => \/ \E t \in Workers : thr[t].pc = "Complete" /\ thr[t].Context = RealContext(c)
          \/ ctx[c].state = "unalloc"
    /\ \A t \in Workers :
         /\ thr'[t].pc = "Complete" /\ thr[t].pc # "Complete"
            /\ thr'[t].Context = RealContext(c)
            => c \in processing
         /\ thr'[t].pc = "Dispose" /\ thr[t].pc # "Dispose"
            /\ thr'[t].Context = RealContext(c)
            => \/ pending # <<>> /\ Head(pending) = c
               \/ ctx[c].state = "unalloc" /\ thr[t].pc = "Fetch"

(* C15, as stated: the routing of each dispatch depends on the phase, a    *)
(* context alternates between the stages of its lifecycle, and a call that *)
(* re-posted a context from its completion phase never puts that context   *)
(* into the processing set.                                                *)
C15_RepostingCallNeverStarts ==
    [][/\ \A t \in Workers :
            /\ RoutingOfDispatch(t)
            /\ thr[t].pc = "Dispose" /\ 0 # thr[t].Posted
               => thr[t].Posted \notin processing'
       /\ \A c \in ContextIds : LifecycleOfContext(c)
      ]_vars

(* C15, amended: the completion phase re-posts a context whose handler     *)
(* continues to the pending set and never puts it into the processing set; *)
(* the request phase moves a context whose handler continues to the        *)
(* processing set and never re-posts it; a status-only context is put into *)
(* neither set; a context alternates between the stages of its lifecycle.  *)
(* (The request phase of the call that re-posted a context may take it     *)
(* from the pending set again and move it to the processing set.)          *)
C15_RoutingByPhase ==
    [][/\ \A t \in Workers : RoutingOfDispatch(t)
       /\ \A c \in ContextIds : LifecycleOfContext(c)
      ]_vars

\* a call has re-posted a context in its completion phase, taken it again
\* in its request phase and moved it to the processing set
C15_Witness ==
    \E t \in Workers : \E c \in Created :
        /\ thr[t].pc = "ret" /\ thr[t].Result = STATUS_SUCCESS
        /\ thr[t].Posted = c
        /\ thr[t].Context = RealContext(c)
        /\ thr[t].Continue
        /\ c \in processing


(* C16: the request phase reads VersionMajor, waits and fetches only after *)
(* FuseIoqNextPending returned none.  When the pending set is not empty    *)
(* the call takes its oldest context and dispatches it without reading     *)
(* VersionMajor, whatever its value; when the set is empty the call goes   *)
(* to the version check with no context.  An internal request leaves the   *)
(* host framework only in the fetch step of such a call.  After a dispatch *)
(* the request phase ends: it dispatches at most one context.              *)
C16_BootstrapOnlyWhenNonePending ==
    [][\A t \in Workers :
        /\ thr[t].pc = "NextPending" /\ thr'[t].pc # "NextPending"
           => /\ thr[t].VersionMajor = 0 /\ thr'[t].VersionMajor = 0
              /\ UNCHANGED <<ctx, req, processing>>
              /\ IF pending # <<>>
                 THEN /\ thr'[t].pc = "Dispose"
                      /\ thr'[t].Context = RealContext(Head(pending))
                      /\ pending' = Tail(pending)
                 ELSE /\ thr'[t].pc = "ReadVersion"
                      /\ thr'[t].Context = NullContext
                      /\ pending' = pending
        /\ thr'[t].pc = "ReadVersion" /\ thr[t].pc # "ReadVersion"
           => thr[t].pc = "NextPending" /\ pending = <<>>
        /\ thr'[t].pc = "Wait" /\ thr[t].pc # "Wait"
           => thr[t].pc = "ReadVersion"
        /\ thr'[t].pc = "Fetch" /\ thr[t].pc # "Fetch"
           => thr[t].pc \in {"ReadVersion", "Wait"}
        /\ thr'[t].pc \in {"ReadVersion", "Wait", "Fetch"}
           => thr'[t].Context = NullContext
        /\ thr[t].pc = "Dispose" /\ thr'[t].pc # "Dispose"
           => thr'[t].pc \in {"ret", "bugcheck"}
        /\ thr'[t].pc = "Dispose" /\ thr[t].pc # "Dispose"
           => thr[t].pc \in {"NextPending", "Fetch"}
       ]_vars
    /\ [][~NothingFetched
          => \E t \in Workers : thr[t].pc = "Fetch" /\ thr'[t].pc = "Dispose"]_vars

\* a call has dispatched a pending context although negotiation had failed
\* and it never read VersionMajor
C16_Witness ==
    \E t \in Workers : \E c \in Created :
        /\ thr[t].pc = "ret" /\ thr[t].Result = STATUS_SUCCESS
        /\ thr[t].Context = RealContext(c)
        /\ thr[t].VersionMajor = 0
        /\ 0 # thr[t].OutputBufferLength
        /\ GateFailed


\* a step of worker t's call other than leaving the wait
RunsOn(t) ==
    \/ Complete(t) \/ NextPending(t) \/ ReadVersion(t) \/ Fetch(t) \/ Dispose(t)
    \/ DisposeStatus(t, "fault") \/ DisposeStatus(t, "zero")
    \/ DisposeStatus(t, "nonzero")

(* C17: a call can be held up or cancelled only in the wait on the gate:   *)
(* anywhere else in FuseDeviceTransact its next step can be taken, and     *)
(* STATUS_CANCELLED is returned from the wait only.  A call that is at the *)
(* version check, in the wait or at the fetch has no context and no        *)
(* internal request in hand: its completion phase left the context it      *)
(* dispatched in the pending set or deleted, FuseIoqNextPending returned   *)
(* none, and the wait is entered from the version check only, never after  *)
(* a dispatch of the request phase.                                        *)
C17_SingleBlockingPoint ==
    /\ [](\A t \in Workers :
            /\ thr[t].pc \in {"ReadVersion", "Wait", "Fetch"}
               => /\ thr[t].Context = NullContext
                  /\ 0 = thr[t].InternalRequest
                  /\ \A c \in ContextIds : t \notin Holders(c)
            /\ Running /\ thr[t].pc \in {"Complete", "NextPending", "ReadVersion",
                                         "Fetch", "Dispose"}
               => ENABLED RunsOn(t))
    /\ [][\A t \in Workers :
            /\ thr[t].pc = "Complete" /\ thr'[t].pc # "Complete"
               => LET c == thr[t].Context.val
                  IN \/ PendingCountIn(pending', c) = 1 /\ ctx'[c].state = "live"
                     \/ PendingCountIn(pending', c) = 0 /\ ctx'[c].state = "freed"
            /\ FailsInStep(t) /\ thr'[t].Result = STATUS_CANCELLED
               => thr[t].pc = "Wait"
            /\ thr'[t].pc = "Wait" /\ thr[t].pc # "Wait"
               => thr[t].pc = "ReadVersion" /\ pending' = pending
            /\ thr[t].pc = "Dispose" => thr'[t].pc # "Wait"
       ]_vars

\* a call is blocked on the gate with nothing in hand while a context sits
\* in the pending set and another one has been deleted
C17_Witness ==
    \E t \in Workers :
        /\ thr[t].pc = "Wait" /\ ~InitEvent
        /\ thr[t].Context = NullContext /\ 0 = thr[t].InternalRequest
        /\ pending # <<>>
        /\ \E c \in Created : ctx[c].deletes = 1


(* C18: no step of the bridge reads a field of a status-only context, so   *)
(* no such read faults; the processing set, the pending set and            *)
(* FuseContextDelete see real contexts only.                               *)
C18_NeverReadsStatusOnly ==
    [][/\ \A t \in Workers : ~ReadsThroughStatus(t)
       /\ ~bugcheck'
       /\ \A c \in processing' : ctx'[c].state = "live"
       /\ \A i \in 1..Len(pending') : ctx'[pending'[i]].state = "live"
      ]_vars

\* the calls and the contexts that own internal request r
RequestOwners(r) ==
    Cardinality({t \in Workers : /\ thr[t].pc \in {"Dispose", "bugcheck"}
                                 /\ thr[t].InternalRequest = r})
    + Cardinality({c \in ContextIds : /\ ctx[c].state = "live"
                                      /\ ctx[c].InternalRequest = r})

(* C19: an internal request that was fetched has exactly one owner, the    *)
(* call that fetched it or one live context, until it is freed, and it is  *)
(* freed at most once, after which it has no owner.  Owned by a call, it   *)
(* is that of a status-only context and no context refers to it; owned by  *)
(* a context, no call refers to it and, while the queue exists, the        *)
(* context is in a queue set or in the hands of a call.  So a call that    *)
(* has returned has freed it or left it to such a context.                 *)
C19_RequestBufferOwnership ==
    \A r \in RequestIds :
        /\ req[r].state = "host" => req[r].frees = 0 /\ RequestOwners(r) = 0
        /\ req[r].state = "fetched"
           => /\ req[r].frees <= 1
              /\ RequestOwners(r) + req[r].frees = 1
              /\ \A t \in Workers :
                   thr[t].pc = "Dispose" /\ thr[t].InternalRequest = r
                   => FuseContextIsStatus(thr[t].Context)
              /\ \A c \in ContextIds :
                   ctx[c].state = "live" /\ ctx[c].InternalRequest = r
                   => "deleted" = Ioq \/ Owners(c) = 1
              /\ \A c \in ContextIds :
                   ctx[c].state = "freed" /\ ctx[c].InternalRequest = r
                   => req[r].frees = 1

\* a fetched internal request passed to a context, which went through the
\* processing set and was deleted by a later call: the request is freed
\* once
C19_Witness ==
    \E r \in RequestIds : \E c \in Created : \E t \in Workers :
        /\ req[r].state = "fetched" /\ req[r].frees = 1
        /\ ctx[c].InternalRequest = r /\ ctx[c].deletes = 1
        /\ thr[t].pc = "ret" /\ thr[t].Context = RealContext(c)
        /\ 0 # thr[t].InputBufferLength
        /\ 0 = thr[t].InternalRequest

(* C20: the host framework is handed at most one internal response for an  *)
(* internal request, with the Kind and the Hint of that request.  A        *)
(* response is handed over only in the step in which the dispatch of the   *)
(* request's context has returned not-Continue, or in which a call leaves  *)
(* the dispatch with a status-only context for that request.  The step     *)
(* that ends the dispatch of a context with no internal request hands over *)
(* nothing.                                                                *)
C20_AtMostOneResponse ==
    /\ [](\A r \in RequestIds :
            /\ Len(req[r].responses) <= 1
            /\ req[r].state = "host" => req[r].responses = <<>>
            /\ \A i \in 1..Len(req[r].responses) :
                 /\ req[r].responses[i].Kind = req[r].Kind
                 /\ req[r].responses[i].Hint = req[r].Hint
                 /\ req[r].Hint = HintOf(r))
    /\ [][\A r \in RequestIds :
            req'[r].responses # req[r].responses
            => /\ req'[r].responses = Append(req[r].responses, LastResponse(req', r))
               /\ \E t \in Workers :
                    /\ thr[t].pc \in {"Complete", "Dispose"}
                    /\ thr'[t].pc \notin {"Complete", "Dispose"}
                    /\ ~thr'[t].Continue
                    /\ IF FuseContextIsStatus(thr[t].Context)
                       THEN /\ thr[t].InternalRequest = r
                            /\ LastResponse(req', r).Status =
                                  FuseContextToStatus(thr[t].Context)
                       ELSE ctx[thr[t].Context.val].InternalRequest = r
       ]_vars
    /\ [][\A t \in Workers :
            /\ thr[t].pc \in {"Complete", "Dispose"}
            /\ thr'[t].pc \notin {"Complete", "Dispose"}
            /\ ~FuseContextIsStatus(thr[t].Context)
            /\ 0 = ctx[thr[t].Context.val].InternalRequest
            => ~ForwardedInStep
       ]_vars

\* the response of a context that went through the processing set has been
\* forwarded, with the Kind and the Hint the host framework gave
C20_Witness ==
    \E r \in RequestIds : \E c \in Created : \E t \in Workers :
        /\ ctx[c].InternalRequest = r /\ ctx[c].deletes = 1
        /\ Len(req[r].responses) = 1
        /\ req[r].responses[1].Kind = FspFsctlTransactCreateKind
        /\ req[r].responses[1].Hint = HintOf(r)
        /\ thr[t].pc = "NextPending"
        /\ \E d \in Created : 0 = ctx[d].InternalRequest /\ ctx[d].deletes = 1

====
